---------------------------- MODULE Spec2Model ----------------------------
(***************************************************************************)
(* Human Voice Risk Editor.                                                *)
(*                                                                         *)
(* The server (src/README.md, lines 131-575: server/index.js) scores a     *)
(* text and proposes offset-addressed edits; the client                    *)
(* (src/client/src/App.jsx) holds the document and the suggestion list and *)
(* applies accepted suggestions one at a time.                             *)
(*                                                                         *)
(* A text is the sequence of its characters, a character is a string of    *)
(* length 1; chars("abc") is the text written "abc".  Offsets are 0-based  *)
(* as in JavaScript, sequences are 1-based.  Messages, names and ids that  *)
(* the code only stores and compares are plain strings.                    *)
(*                                                                         *)
(* JavaScript numbers (IEEE doubles) are modelled as fixed-point numbers:  *)
(* a value v is held as the integer floor(v * Scale); every division,      *)
(* square root and logarithm rounds down to a multiple of 1/Scale.  A      *)
(* score (0..100) computed this way is within about 0.02 of the double the *)
(* code computes; scores that need no square root and no logarithm         *)
(* (sentence pattern, vocabulary) are within 0.015.                        *)
(***************************************************************************)
EXTENDS Integers, Sequences, FiniteSets, TLC

VARIABLES
    \* ---- client state (App.jsx, useState hooks, lines 121-130)
    text,               \* the document in the editor
    styleSample,        \* the optional style sample
    analysis,           \* the baseline analysis (null before the first one)
    currentMetrics,     \* the metrics shown (null before the first analysis)
    suggestions,        \* the suggestion list
    originalText,       \* the text captured by the last full analysis
    activeSuggestionId, \* the highlighted suggestion (null when none)
    loading,            \* a full analysis is running
    refreshingRisk,     \* a risk refresh is running
    error,              \* the message shown ("" when none)
    inflight,           \* fetches awaiting their response
    edits,              \* inputs that sent nothing so far (bounds the model)
    requests,           \* scoring requests issued so far (bounds the model)
    located,            \* how the last applySuggestion found its target
    overlapped,         \* ids left unshifted by an accept that cut their span
    delivered,          \* responses handled so far
    \* ---- one POST /api/analyze handled by the server
    reqText,            \* the text of the request body
    reqStyle,           \* its style sample
    result              \* the response (null before the handler has run)

vars == << text, styleSample, analysis, currentMetrics, suggestions,
           originalText, activeSuggestionId, loading, refreshingRisk, error,
           inflight, edits, requests, located, overlapped, delivered, reqText,
           reqStyle, result >>

clientVars == << text, styleSample, analysis, currentMetrics, suggestions,
                 originalText, activeSuggestionId, loading, refreshingRisk,
                 error, inflight, edits, requests, located, overlapped,
                 delivered >>

serverVars == << reqText, reqStyle, result >>

\* null, where the code holds an object or null
null == [null |-> TRUE]

\* null, where the code holds a string or null
noId == ""

-----------------------------------------------------------------------------
(* Characters and the JavaScript string operations the code uses.           *)

\* the text written as the string s
chars(s) == SubSeq([i \in 1..Len(s) |-> SubSeq(s, i, i)], 1, Len(s))

\* the empty text ''
empty == << >>

LOWER == chars("abcdefghijklmnopqrstuvwxyz")
UPPER == chars("ABCDEFGHIJKLMNOPQRSTUVWXYZ")
DIGITS == chars("0123456789")

Range(s) == { s[i] : i \in 1..Len(s) }

LowerChars == Range(LOWER)
UpperChars == Range(UPPER)

\* \s of a JavaScript regular expression and of String.prototype.trim
SpaceChars == {" ", "\n", "\t", "\r"}

\* \w of a JavaScript regular expression
WordChars == LowerChars \cup UpperChars \cup Range(DIGITS) \cup {"_"}

toLowerMap == [c \in UpperChars |-> LOWER[CHOOSE k \in 1..26 : UPPER[k] = c]]

toUpperMap == [c \in LowerChars |-> UPPER[CHOOSE k \in 1..26 : LOWER[k] = c]]

lowerChar(c) == IF c \in UpperChars THEN toLowerMap[c] ELSE c
upperChar(c) == IF c \in LowerChars THEN toUpperMap[c] ELSE c

Min2(a, b) == IF a < b THEN a ELSE b
Max2(a, b) == IF a > b THEN a ELSE b

\* 1, 2, ..., n
indices(n) == SubSeq([i \in 1..n |-> i], 1, n)

\* arr.map(F)
map(arr, F(_)) == SubSeq([i \in 1..Len(arr) |-> F(arr[i])], 1, Len(arr))

\* the sequences of a sequence, joined (by halving, so that the evaluation
\* of a long one stays shallow)
RECURSIVE concatSeqs(_, _, _)
concatSeqs(parts, lo, hi) ==
    IF lo > hi THEN << >>
    ELSE IF lo = hi THEN parts[lo]
    ELSE LET mid == (lo + hi) \div 2
         IN  concatSeqs(parts, lo, mid) \o concatSeqs(parts, mid + 1, hi)

flatten(parts) == concatSeqs(parts, 1, Len(parts))

RECURSIVE sumRange(_, _, _)
sumRange(arr, lo, hi) ==
    IF lo > hi THEN 0
    ELSE IF lo = hi THEN arr[lo]
    ELSE LET mid == (lo + hi) \div 2
         IN  sumRange(arr, lo, mid) + sumRange(arr, mid + 1, hi)

sumSeq(arr) == sumRange(arr, 1, Len(arr))

\* Math.max(...arr) of a non-empty sequence
maxSeq(arr) == CHOOSE v \in Range(arr) : \A i \in 1..Len(arr) : arr[i] <= v

toLowerCase(s) == map(s, lowerChar)

\* String.prototype.slice(a, b): negative offsets count from the end, both
\* are cut to the text, an empty range is ''
slice(s, a, b) ==
    LET n    == Len(s)
        from == IF a < 0 THEN Max2(n + a, 0) ELSE Min2(a, n)
        to   == IF b < 0 THEN Max2(n + b, 0) ELSE Min2(b, n)
    IN  IF from >= to THEN empty ELSE SubSeq(s, from + 1, to)

sliceFrom(s, a) == slice(s, a, Len(s))

\* pat occurs in s at offset i
occursAt(s, pat, i) ==
    /\ i >= 0
    /\ i + Len(pat) <= Len(s)
    /\ \A j \in 1..Len(pat) : s[i + j] = pat[j]

\* String.prototype.indexOf(pat): the first offset where pat occurs, -1 if none
indexOf(s, pat) ==
    LET hits == SelectSeq(indices(Len(s) - Len(pat) + 1),
                          LAMBDA k : occursAt(s, pat, k - 1))
    IN  IF Len(hits) = 0 THEN -1 ELSE hits[1] - 1

includes(s, pat) == \E i \in 0..(Len(s) - Len(pat)) : occursAt(s, pat, i)

\* the white space at the two ends of a text is short: these two step over it
RECURSIVE skipSpaceRight(_, _)
skipSpaceRight(s, i) ==
    IF i > Len(s) \/ s[i] \notin SpaceChars THEN i
    ELSE skipSpaceRight(s, i + 1)

RECURSIVE skipSpaceLeft(_, _)
skipSpaceLeft(s, i) ==
    IF i < 1 \/ s[i] \notin SpaceChars THEN i
    ELSE skipSpaceLeft(s, i - 1)

\* String.prototype.trim
trim(s) ==
    LET a == skipSpaceRight(s, 1)
        b == skipSpaceLeft(s, Len(s))
    IN  IF a > b THEN empty ELSE SubSeq(s, a, b)

capitalizeFirst(t) ==
    IF t = empty THEN t ELSE << upperChar(t[1]) >> \o Tail(t)

lowerFirst(t) ==
    IF t = empty THEN t ELSE << lowerChar(t[1]) >> \o Tail(t)

\* the number of characters of s that are in the set cs
countChars(s, cs) == Len(SelectSeq(s, LAMBDA c : c \in cs))

-----------------------------------------------------------------------------
(* Segmenter: tokenizeWords and splitSentences.                             *)

isSpaceAt(s, i) == i >= 1 /\ i <= Len(s) /\ s[i] \in SpaceChars
isTextAt(s, i)  == i >= 1 /\ i <= Len(s) /\ s[i] \notin SpaceChars

\* nlp(text).terms().out('array'), and text.split(/\s+/) of a trimmed text: the
\* maximal runs of characters other than white space
terms(s) ==
    LET at     == indices(Len(s))
        starts == SelectSeq(at, LAMBDA i : isTextAt(s, i) /\ ~isTextAt(s, i - 1))
        ends   == SelectSeq(at, LAMBDA i : isTextAt(s, i) /\ ~isTextAt(s, i + 1))
    IN  SubSeq([k \in 1..Len(starts) |-> SubSeq(s, starts[k], ends[k])],
               1, Len(starts))

\* term.toLowerCase().replace(/[^a-z']/g, '')
stripTerm(t) ==
    SelectSeq(toLowerCase(t), LAMBDA c : c \in LowerChars \cup {"'"})

tokenizeWords(s) ==
    SelectSeq(map(terms(s), stripTerm), LAMBDA w : w # empty)

\* the characters that end a run of /[^.!?\n]+/
StopChars == {".", "!", "?", "\n"}
\* the optional closing mark /[.!?]?/
EndMarks == {".", "!", "?"}

inRunAt(s, i) == i >= 1 /\ i <= Len(s) /\ s[i] \notin StopChars

\* the matches of /[^.!?\n]+[.!?]?/g as <<start, end>> offsets: every maximal
\* run of characters other than . ! ? and line break, with the . ! or ? that
\* follows it
sentenceMatches(s) ==
    LET at     == indices(Len(s))
        starts == SelectSeq(at, LAMBDA i : inRunAt(s, i) /\ ~inRunAt(s, i - 1))
        ends   == SelectSeq(at, LAMBDA i : inRunAt(s, i) /\ ~inRunAt(s, i + 1))
    IN  SubSeq([k \in 1..Len(starts) |->
                   << starts[k] - 1,
                      IF ends[k] < Len(s) /\ s[ends[k] + 1] \in EndMarks
                      THEN ends[k] + 1 ELSE ends[k] >>],
               1, Len(starts))

\* words.slice(0, 2).join(' ')
joinWords(ws) ==
    IF Len(ws) = 0 THEN empty
    ELSE IF Len(ws) = 1 THEN ws[1]
    ELSE ws[1] \o << " " >> \o ws[2]

\* a sentence whose raw text is taken after trimming
sentenceOfTrimmed(s, m, index) ==
    LET raw        == trim(slice(s, m[1], m[2]))
        words      == tokenizeWords(raw)
    IN  [ index     |-> index,
          raw       |-> raw,
          text      |-> raw,
          start     |-> m[1],
          end       |-> m[2],
          wordCount |-> Len(words),
          opener    |-> joinWords(SubSeq(words, 1, Min2(2, Len(words)))),
          firstWord |-> IF Len(words) > 0 THEN words[1] ELSE empty ]

sentenceOf(s, m, index) ==
    LET raw        == slice(s, m[1], m[2])
        normalized == trim(raw)
        words      == tokenizeWords(normalized)
    IN  [ index     |-> index,
          raw       |-> raw,
          text      |-> normalized,
          start     |-> m[1],
          end       |-> m[2],
          wordCount |-> Len(words),
          opener    |-> joinWords(SubSeq(words, 1, Min2(2, Len(words)))),
          firstWord |-> IF Len(words) > 0 THEN words[1] ELSE empty ]

splitSentences(s) ==
    LET ms   == sentenceMatches(s)
        kept == SelectSeq(ms, LAMBDA m : trim(slice(s, m[1], m[2])) # empty)
    IN  SubSeq([k \in 1..Len(kept) |-> sentenceOf(s, kept[k], k - 1)],
               1, Len(kept))

-----------------------------------------------------------------------------
(* Numbers.  A score v is held as floor(v * Scale).                         *)

\* decimal digits kept after the point
ScaleDigits == 4

RECURSIVE pow10(_)
pow10(k) == IF k = 0 THEN 1 ELSE 10 * pow10(k - 1)

Scale == pow10(ScaleDigits)

RECURSIVE divDigits(_, _, _, _)
divDigits(q, r, b, k) ==
    IF k = 0 THEN q
    ELSE divDigits(q * 10 + (r * 10) \div b, (r * 10) % b, b, k - 1)

\* a / b as a fixed-point number, for a >= 0 and b > 0 (both integers, or both
\* fixed-point numbers): floor(a * Scale / b) by long division
FixDiv(a, b) == divDigits(a \div b, a % b, b, ScaleDigits)

isqrt(n) == CHOOSE r \in 0..n : r * r <= n /\ (r + 1) * (r + 1) > n

RECURSIVE sqrtDigits(_, _, _)
sqrtDigits(r, rem, k) ==
    IF k = 0 THEN r
    ELSE LET x == rem * 100
             d == CHOOSE c \in 0..9 :
                     /\ (20 * r + c) * c <= x
                     /\ (c = 9 \/ (20 * r + c + 1) * (c + 1) > x)
         IN  sqrtDigits(10 * r + d, x - (20 * r + d) * d, k - 1)

\* Math.sqrt of an integer n >= 0: floor(sqrt(n) * Scale), digit by digit
SqrtFix(n) == LET r == isqrt(n) IN sqrtDigits(r, n - r * r, ScaleDigits)

RECURSIVE floorLog2(_)
floorLog2(n) == IF n < 2 THEN 0 ELSE 1 + floorLog2(n \div 2)

RECURSIVE pow2(_)
pow2(k) == IF k = 0 THEN 1 ELSE 2 * pow2(k - 1)

\* bits of the binary logarithm's fraction that are computed
LogBits == 13
\* 1.0 as a mantissa with 14 fraction bits (its square fits 32 bits)
LogOne == pow2(14)

\* the fraction bits of log2 of the mantissa m (1 <= m < 2), by squaring
RECURSIVE logFraction(_, _, _)
logFraction(m, acc, k) ==
    IF k = 0 THEN acc
    ELSE LET sq == (m * m) \div LogOne
         IN  IF sq >= 2 * LogOne
             THEN logFraction(sq \div 2, 2 * acc + 1, k - 1)
             ELSE logFraction(sq, 2 * acc, k - 1)

\* Math.log2 of an integer n, 1 <= n < 2^14, as a fixed-point number
Log2Fix(n) ==
    LET e == floorLog2(n)
        m == n * pow2(14 - e)
        f == logFraction(m, 0, LogBits)
    IN  e * Scale + (f * Scale) \div pow2(LogBits)

\* clamp with the upper limit left out: a score above 100 stays as it is
clampFromBelow(value) == Max2(0, value)

clamp(value) == Max2(0, Min2(100 * Scale, value))

\* average of a sequence of integers, as a fixed-point number
average(arr) == IF Len(arr) = 0 THEN 0 ELSE FixDiv(sumSeq(arr), Len(arr))

\* n * sum(x^2) - sum(x)^2 = n^2 * variance
scaledVariance(arr) ==
    LET n == Len(arr)
        s == sumSeq(arr)
    IN  n * sumSeq([i \in 1..n |-> arr[i] * arr[i]]) - s * s

\* population standard deviation of a sequence of integers, fixed-point
stdDev(arr) ==
    IF Len(arr) <= 1 THEN 0
    ELSE SqrtFix(scaledVariance(arr)) \div Len(arr)

\* Math.round of a non-negative fixed-point number: an integer
round(v) == (v + Scale \div 2) \div Scale

\* Number(v.toFixed(digits)) in units of 10^-digits
toFixed(v, digits) == (v * pow10(digits) + Scale \div 2) \div Scale

\* getRiskColor with the first threshold at 30 in place of 35
getRiskColorFrom30(score) ==
    IF score < 30 * Scale THEN "low"
    ELSE IF score < 65 * Scale THEN "moderate"
    ELSE "high"

getRiskColor(score) ==
    IF score < 35 * Scale THEN "low"
    ELSE IF score < 65 * Scale THEN "moderate"
    ELSE "high"

-----------------------------------------------------------------------------
(* The server's word lists and regular expressions.                         *)

COMMON_WORDS ==
    { chars(w) : w \in
        { "the", "a", "an", "and", "or", "but", "if", "then", "that", "this",
          "it", "is", "are", "was", "were", "be", "been", "being", "to", "of",
          "in", "on", "at", "for", "with", "by", "from", "as", "about", "into",
          "through", "after", "before", "between", "because", "while", "over",
          "under", "during", "within", "without", "i", "you", "we", "they",
          "he", "she", "my", "your", "our", "their", "its", "there", "here",
          "can", "could", "would", "should", "may", "might", "do", "does",
          "did", "have", "has", "had", "more", "most", "very", "really" } }

swap(phrase, replacement) ==
    [ phrase |-> chars(phrase), replacement |-> chars(replacement) ]

PREDICTABLE_PHRASES ==
    << swap("in conclusion",                "to wrap up"),
       swap("it is important to note that", "worth noting:"),
       swap("the purpose of this",          "this is meant to"),
       swap("there are several",            "a few"),
       swap("this demonstrates that",       "this shows"),
       swap("in addition",                  "plus"),
       swap("furthermore",                  "also"),
       swap("moreover",                     "on top of that"),
       swap("overall",                      "all in all"),
       swap("it should be noted that",      "note that") >>

\* the alternatives of HEDGE_REGEX, in its order
HEDGE_WORDS ==
    map(<< "may", "might", "could", "perhaps", "possibly", "generally",
           "typically", "often", "somewhat", "largely", "arguably",
           "relatively" >>, chars)

isWordAt(s, i) == i >= 0 /\ i < Len(s) /\ s[i + 1] \in WordChars

\* \b at offset i: exactly one of the characters around it is a word character
wordBoundary(s, i) == isWordAt(s, i - 1) # isWordAt(s, i)

\* the offsets where a word starts: \b followed by a word character
wordStarts(s) ==
    SelectSeq(map(indices(Len(s)), LAMBDA k : k - 1),
              LAMBDA i : isWordAt(s, i) /\ ~isWordAt(s, i - 1))

\* /\bw\b/i matches at offset i of s (low is s in lower case, w is lower case
\* and starts and ends with a letter)
wordMatchAt(s, low, w, i) ==
    /\ occursAt(low, w, i)
    /\ wordBoundary(s, i)
    /\ wordBoundary(s, i + Len(w))

\* the offsets of the matches of /\bw\b/gi in s, in the order exec finds them.
\* w starts and ends with a letter, so a match starts where a word starts; no
\* proper end of w is also a start of it at a word boundary, so two matches
\* never overlap and every offset where the expression matches is found.
wordMatchesIn(s, low, starts, w) ==
    SelectSeq(starts, LAMBDA i : wordMatchAt(s, low, w, i))

wordMatches(s, w) == wordMatchesIn(s, toLowerCase(s), wordStarts(s), w)

\* the hedge words that match at offset i (at most one does)
hedgesAt(s, low, i) ==
    SelectSeq(HEDGE_WORDS, LAMBDA w : wordMatchAt(s, low, w, i))

\* the matches of HEDGE_REGEX in s, as <<offset, matched text>>
hedgeMatchesIn(s, low) ==
    LET starts == SelectSeq(wordStarts(s), LAMBDA i : Len(hedgesAt(s, low, i)) > 0)
    IN  map(starts, LAMBDA i : << i, slice(s, i, i + Len(hedgesAt(s, low, i)[1])) >>)

hedgeMatches(s) == hedgeMatchesIn(s, toLowerCase(s))

-----------------------------------------------------------------------------
(* StyleProfiler.                                                           *)

nonZero(arr) == SelectSeq(arr, LAMBDA v : v # 0)

wordCounts(sentences) == map(sentences, LAMBDA x : x.wordCount)

computeStyleProfile(sample) ==
    IF sample = empty \/ trim(sample) = empty THEN null
    ELSE LET sentences       == splitSentences(sample)
             sentenceLengths == nonZero(wordCounts(sentences))
             commaCount      == countChars(sample, {","})
             questionCount   == countChars(sample, {"?"})
         IN  [ avgSentenceLength |-> average(sentenceLengths),
               sentenceVariance  |-> stdDev(sentenceLengths),
               commaRate         |-> IF Len(sentenceLengths) > 0
                                     THEN FixDiv(commaCount, Len(sentenceLengths))
                                     ELSE 0,
               questionRate      |-> IF Len(sentenceLengths) > 0
                                     THEN FixDiv(questionCount, Len(sentenceLengths))
                                     ELSE 0 ]

-----------------------------------------------------------------------------
(* SuggestionEngine: buildSuggestions.  Each detector is the sequence of    *)
(* the candidates it hands to pushSuggestion, in the order of its loop.     *)

\* what a detector hands to pushSuggestion (description, a display text no
\* code reads, is left out)
candidate(type, title, start, end, original, replacement, riskImpact) ==
    [ type |-> type, title |-> title, start |-> start, end |-> end,
      original |-> original, replacement |-> replacement,
      riskImpact |-> riskImpact ]

suggestionId(n) == "s-" \o ToString(n)

validSpan(c) == ~(c.start < 0 \/ c.end <= c.start)

\* pushSuggestion called on each candidate of cs in turn: a candidate with an
\* invalid span is dropped, the others are appended with the next id
pushAll(list, cs) ==
    LET ok == SelectSeq(cs, validSpan)
    IN  list \o SubSeq([k \in 1..Len(ok) |->
            [ type |-> ok[k].type, title |-> ok[k].title, start |-> ok[k].start,
              end |-> ok[k].end, original |-> ok[k].original,
              replacement |-> ok[k].replacement, riskImpact |-> ok[k].riskImpact,
              id |-> suggestionId(Len(list) + k), status |-> "pending" ]],
            1, Len(ok))

pushSuggestion(list, c) == pushAll(list, << c >>)

\* `${left}. ${capitalizeFirst(right)}` for the text cut at its first comma
leftOfComma(t)  == trim(slice(t, 0, indexOf(t, << "," >>)))
rightOfComma(t) == trim(sliceFrom(t, indexOf(t, << "," >>) + 1))
splitAtComma(t) ==
    leftOfComma(t) \o << ".", " " >> \o capitalizeFirst(rightOfComma(t))

\* windowFires without the test of the length of the middle sentence
windowFiresAnyLength(sentences, i) ==
    LET window   == SubSeq(sentences, i, i + 2)
        localStd == stdDev(wordCounts(window))
        target   == window[2]
    IN  /\ 10 * localStd <= 22 * Scale
        /\ includes(target.text, << "," >>)
        /\ leftOfComma(target.text) # empty
        /\ rightOfComma(target.text) # empty

\* the window of three sentences that starts at sentence i (1-based) fires
windowFires(sentences, i) ==
    LET window   == SubSeq(sentences, i, i + 2)
        localStd == stdDev(wordCounts(window))
        target   == window[2]
    IN  /\ 10 * localStd <= 22 * Scale
        /\ target.wordCount > 20
        /\ includes(target.text, << "," >>)
        /\ leftOfComma(target.text) # empty
        /\ rightOfComma(target.text) # empty

\* 1) Vary sentence length: detect runs with similar lengths
varyWindows(sentences) ==
    LET fired == SelectSeq(indices(Len(sentences) - 2),
                           LAMBDA i : windowFires(sentences, i))
    IN  map(fired, LAMBDA i :
            candidate("vary-sentence-length",
                      "Vary sentence length in this run",
                      sentences[i + 1].start, sentences[i + 1].end,
                      sentences[i + 1].raw,
                      splitAtComma(sentences[i + 1].text), 8))

\* /^[A-Z]/.test(s)
startsUpper(s) == s # empty /\ s[1] \in UpperChars

\* swapCandidate proposing the replacement as the catalog lists it
swapCandidateAsListed(s, p, offset) ==
    LET original == slice(s, offset, offset + Len(p.phrase))
    IN  candidate("swap-predictable-phrasing", "Use less templated phrasing",
                  offset, offset + Len(original), original, p.replacement, 6)

swapCandidate(s, p, offset) ==
    LET original == slice(s, offset, offset + Len(p.phrase))
    IN  candidate("swap-predictable-phrasing", "Use less templated phrasing",
                  offset, offset + Len(original), original,
                  IF startsUpper(original)
                  THEN capitalizeFirst(p.replacement)
                  ELSE p.replacement,
                  6)

\* the while loop over one phrase's matches: every match is pushed, and the
\* loop is left by the return once 40 suggestions are held after a push
swapMatches(list, s, low, starts, p) ==
    LET ms    == wordMatchesIn(s, low, starts, p.phrase)
        taken == IF Len(ms) = 0 THEN 0
                 ELSE Min2(Len(ms), Max2(1, 40 - Len(list)))
    IN  pushAll(list, map(SubSeq(ms, 1, taken), LAMBDA i : swapCandidate(s, p, i)))

\* 2) Swap predictable phrasing: PREDICTABLE_PHRASES.forEach from phrase k on
RECURSIVE swapFrom(_, _, _, _, _)
swapFrom(list, s, low, starts, k) ==
    IF k > Len(PREDICTABLE_PHRASES) THEN list
    ELSE swapFrom(swapMatches(list, s, low, starts, PREDICTABLE_PHRASES[k]),
                  s, low, starts, k + 1)

swapPhrases(list, s) == swapFrom(list, s, toLowerCase(s), wordStarts(s), 1)

\* Array.prototype.join
join(ws, sep) ==
    flatten([k \in 1..Len(ws) |-> IF k = 1 THEN ws[k] ELSE sep \o ws[k]])

\* Array.prototype.find: the first element that satisfies Test, null if none
find(arr, Test(_)) ==
    LET hits == SelectSeq(arr, Test) IN IF Len(hits) = 0 THEN null ELSE hits[1]

\* words.splice(at, 0, item)
insertAt(ws, at, item) ==
    SubSeq(ws, 1, at) \o << item >> \o SubSeq(ws, at + 1, Len(ws))

\* 3) Add stylistic texture
addTexture(s, sentences, styleProfile) ==
    LET hasTexture == countChars(s, {"(", ")", "?", ";", ":"}) > 0
        target == find(sentences,
                       LAMBDA x : x.wordCount >= 14 /\ ~includes(x.text, << "(" >>))
        words  == terms(target.text)
    IN  IF (~hasTexture \/ (styleProfile # null /\ 10 * styleProfile.commaRate > 4 * Scale))
           /\ target # null
        THEN << candidate("add-stylistic-texture",
                          "Add a small human-style aside",
                          target.start, target.end, target.raw,
                          join(insertAt(words, Min2(6, Len(words) - 1),
                                        chars("(for context),")),
                               << " " >>),
                          5) >>
        ELSE << >>

\* the distinct elements of a sequence, in the order of their first occurrence
distinct(arr) ==
    LET firsts == SelectSeq(indices(Len(arr)),
                            LAMBDA i : \A j \in 1..(i - 1) : arr[j] # arr[i])
    IN  map(firsts, LAMBDA i : arr[i])

countOf(arr, v) == Len(SelectSeq(arr, LAMBDA x : x = v))

\* /^w\b/i.test(s)
startsWithWord(s, w) ==
    /\ occursAt(toLowerCase(slice(s, 0, Len(w))), w, 0)
    /\ wordBoundary(s, Len(w))

openerRewrite(t) ==
    IF startsWithWord(t, chars("this"))
    THEN chars("In this case, ") \o lowerFirst(t)
    ELSE IF startsWithWord(t, chars("the"))
    THEN chars("From another angle, ") \o lowerFirst(t)
    ELSE IF startsWithWord(t, chars("it"))
    THEN chars("At a practical level, ") \o lowerFirst(t)
    ELSE chars("As written here, ") \o lowerFirst(t)

\* the second and third sentence that start with the word
repeatedSentences(sentences, word) ==
    LET same == SelectSeq(sentences, LAMBDA x : x.firstWord = word)
    IN  SubSeq(same, 2, Min2(3, Len(same)))

\* 4) Diversify sentence openers
diversifyOpeners(sentences) ==
    LET firstWords == SelectSeq(map(sentences, LAMBDA x : x.firstWord),
                                LAMBDA w : w # empty)
        repetitive == SelectSeq(distinct(firstWords),
                                LAMBDA w : countOf(firstWords, w) >= 3)
    IN  flatten(map(repetitive, LAMBDA w :
            map(repeatedSentences(sentences, w), LAMBDA x :
                candidate("diversify-openers",
                          "Diversify repetitive sentence starts",
                          x.start, x.end, x.raw, openerRewrite(x.text), 7))))

\* a === b for a string a and a number b: values of different types are
\* never strictly equal
strictEqualsNumber(str, num) == FALSE

\* sentence.text.replace(HEDGE_REGEX, (hedge, offset) => ...): HEDGE_REGEX has
\* one capture group, so the second argument of the callback is the captured
\* text (the hedge word), not the offset of the match; the callback compares
\* it with === to the number indexOf returns, and gives back '' when they are
\* equal, the match otherwise
dropHedges(t) ==
    LET low == toLowerCase(t)
        ms  == hedgeMatchesIn(t, low)
        endOf(k) == IF k = 0 THEN 0 ELSE ms[k][1] + Len(ms[k][2])
    IN  flatten([k \in 1..Len(ms) |->
            slice(t, endOf(k - 1), ms[k][1])
              \o (IF strictEqualsNumber(ms[k][2],
                                        indexOf(low, toLowerCase(ms[k][2])))
                  THEN empty ELSE ms[k][2])])
        \o sliceFrom(t, endOf(Len(ms)))

\* replace(/\s{2,}/g, ' '): a run of two or more white space characters
\* becomes one space
collapseSpaces(s) ==
    LET kept == SelectSeq(indices(Len(s)),
                          LAMBDA i : ~isSpaceAt(s, i) \/ ~isSpaceAt(s, i - 1))
    IN  map(kept, LAMBDA i : IF isSpaceAt(s, i) /\ isSpaceAt(s, i + 1)
                             THEN " " ELSE s[i])

hedgeReplacement(t) == trim(collapseSpaces(dropHedges(t)))

\* 5) Reduce hedging uniformity
reduceHedging(sentences, hedgeDensity) ==
    IF 10 * hedgeDensity >= 5 * Scale
    THEN LET hedged == SelectSeq(sentences, LAMBDA x :
                          /\ Len(hedgeMatches(x.text)) > 0
                          /\ hedgeReplacement(x.text) # empty
                          /\ hedgeReplacement(x.text) # x.text)
         IN  map(hedged, LAMBDA x :
                 candidate("reduce-hedging-uniformity",
                           "Reduce repetitive hedging",
                           x.start, x.end, x.raw, hedgeReplacement(x.text), 6))
    ELSE << >>

\* Additional sentence-length guidance aligned with style profile
matchRhythm(sentences, sentenceLengthMean, sentenceLengthStd, styleProfile) ==
    LET longSentence ==
            find(sentences,
                 LAMBDA x : x.wordCount * Scale > sentenceLengthMean + 7 * Scale)
    IN  IF /\ styleProfile # null
           /\ 100 * sentenceLengthStd < 75 * styleProfile.sentenceVariance
           /\ longSentence # null
           /\ includes(longSentence.text, << "," >>)
        THEN << candidate("vary-sentence-length", "Match your usual rhythm",
                          longSentence.start, longSentence.end, longSentence.raw,
                          splitAtComma(longSentence.text), 8) >>
        ELSE << >>

\* every suggestion pushed, in the order the detectors push them
candidates(s, sentences, sentenceLengthMean, sentenceLengthStd, hedgeDensity, styleProfile) ==
    LET c1 == pushAll(<< >>, varyWindows(sentences))
        c2 == swapPhrases(c1, s)
        c3 == pushAll(c2, addTexture(s, sentences, styleProfile))
        c4 == pushAll(c3, diversifyOpeners(sentences))
        c5 == pushAll(c4, reduceHedging(sentences, hedgeDensity))
    IN  pushAll(c5, matchRhythm(sentences, sentenceLengthMean, sentenceLengthStd,
                                styleProfile))

\* the list returned whole, without the slice
wholeList(list) == list

\* suggestions.slice(0, 20)
firstTwenty(list) == SubSeq(list, 1, Min2(20, Len(list)))

buildSuggestions(s, sentences, sentenceLengthMean, sentenceLengthStd, hedgeDensity, styleProfile) ==
    firstTwenty(candidates(s, sentences, sentenceLengthMean, sentenceLengthStd,
                           hedgeDensity, styleProfile))

-----------------------------------------------------------------------------
(* RiskScorer: analyzeText.                                                 *)

METRICS ==
    { "perplexity", "burstiness", "sentencePatternDiversity",
      "vocabularyPredictability", "overallRisk" }

\* the counts of the distinct values of arr ([...frequencies.values()])
frequencies(arr) ==
    map(distinct(arr), LAMBDA key : countOf(arr, key))

\* sum of -p * log2(p) over the counts, p = count / total, times total
entropyTimesTotal(counts, total) ==
    sumSeq(map(counts, LAMBDA c : c * (Log2Fix(total) - Log2Fix(c))))

perplexityRisk(counts, totalWords) ==
    LET uniqueWords     == Len(counts)
        entropy         == entropyTimesTotal(counts, totalWords) \div totalWords
        maxEntropy      == IF uniqueWords > 1 THEN Log2Fix(uniqueWords) ELSE Scale
        entropyRatio    == FixDiv(entropy, maxEntropy)
        repetitionRatio == FixDiv(maxSeq(counts), totalWords)
    IN  clamp((Scale - entropyRatio) * 85 + repetitionRatio * 45)

burstinessRisk(sentenceLengths, styleProfile) ==
    LET sentenceLengthMean == average(sentenceLengths)
        sentenceLengthStd  == stdDev(sentenceLengths)
        sentenceLengthCV   == IF sentenceLengthMean # 0
                              THEN FixDiv(sentenceLengthStd, sentenceLengthMean)
                              ELSE 0
        base               == clamp(92 * Scale - sentenceLengthCV * 125)
    IN  IF styleProfile # null /\ styleProfile.sentenceVariance > 0
        THEN LET varianceGap == Max2(0, styleProfile.sentenceVariance - sentenceLengthStd)
             IN  clamp(base + (varianceGap * 35) \div 10)
        ELSE base

\* sentences.map((sentence) => sentence.opener || sentence.firstWord).filter(Boolean)
openersOf(sentences) ==
    SelectSeq(map(sentences, LAMBDA x : IF x.opener # empty THEN x.opener
                                        ELSE x.firstWord),
              LAMBDA o : o # empty)

sentencePatternRisk(sentences) ==
    LET openers == openersOf(sentences)
        openerValues         == frequencies(openers)
        dominantOpenerRatio  == FixDiv(maxSeq(openerValues), Len(openers))
        openerDiversityRatio == FixDiv(Len(openerValues), Len(openers))
    IN  clamp((Scale - openerDiversityRatio) * 70 + dominantOpenerRatio * 55)

dominantOpenerRatioOf(sentences) ==
    LET openers == openersOf(sentences)
    IN  FixDiv(maxSeq(frequencies(openers)), Len(openers))

hedgeDensityOf(s, sentences) ==
    FixDiv(Len(hedgeMatches(s)), Max2(1, Len(sentences)))

vocabularyPredictabilityRisk(words, counts, hedgeDensity) ==
    LET totalWords      == Len(words)
        uniqueWords     == Len(counts)
        commonWordCount == Len(SelectSeq(words, LAMBDA w : w \in COMMON_WORDS))
        commonRatio     == FixDiv(commonWordCount, totalWords)
        hapaxRatio      == FixDiv(Len(SelectSeq(counts, LAMBDA c : c = 1)), uniqueWords)
        base            == clamp(commonRatio * 120 + (Scale - hapaxRatio) * 30)
    IN  clamp(base + hedgeDensity * 12)

\* overallRiskOf with the four scores weighted alike
overallRiskEven(perplexity, burstiness, pattern, vocabulary) ==
    clamp((perplexity * 25 + burstiness * 25 + pattern * 25 + vocabulary * 25) \div 100)

overallRiskOf(perplexity, burstiness, pattern, vocabulary) ==
    clamp((perplexity * 28 + burstiness * 24 + pattern * 22 + vocabulary * 26) \div 100)

\* the neutral result for a text with too little signal
neutralResult(words, sentences, styleProfile) ==
    [ metrics      |-> [m \in METRICS |-> 50],
      riskBands    |-> [m \in METRICS |-> "moderate"],
      insights     |-> [ wordCount |-> Len(words),
                         sentenceCount |-> Len(sentences),
                         note |-> TRUE ],
      suggestions  |-> << >>,
      styleProfile |-> styleProfile ]

\* the early return without its test of the number of sentences
tooFewWords(trimmed, words, sentences) ==
    trimmed = empty \/ Len(words) < 20

tooLittle(trimmed, words, sentences) ==
    trimmed = empty \/ Len(words) < 20 \/ Len(sentences) < 2

\* rawScores with the style profile raising the perplexity score as well
rawScoresStyled(sentences, words, hedgeDensity, styleProfile) ==
    LET counts     == frequencies(words)
        perplexity == clamp(perplexityRisk(counts, Len(words))
                              + (IF styleProfile # null THEN 5 * Scale ELSE 0))
        burstiness == burstinessRisk(nonZero(wordCounts(sentences)), styleProfile)
        pattern    == sentencePatternRisk(sentences)
        vocabulary == vocabularyPredictabilityRisk(words, counts, hedgeDensity)
    IN  [ perplexity               |-> perplexity,
          burstiness               |-> burstiness,
          sentencePatternDiversity |-> pattern,
          vocabularyPredictability |-> vocabulary,
          overallRisk              |-> overallRiskOf(perplexity, burstiness, pattern, vocabulary) ]

\* the scores before rounding, by metric
rawScores(sentences, words, hedgeDensity, styleProfile) ==
    LET counts     == frequencies(words)
        perplexity == perplexityRisk(counts, Len(words))
        burstiness == burstinessRisk(nonZero(wordCounts(sentences)), styleProfile)
        pattern    == sentencePatternRisk(sentences)
        vocabulary == vocabularyPredictabilityRisk(words, counts, hedgeDensity)
    IN  [ perplexity               |-> perplexity,
          burstiness               |-> burstiness,
          sentencePatternDiversity |-> pattern,
          vocabularyPredictability |-> vocabulary,
          overallRisk              |-> overallRiskOf(perplexity, burstiness, pattern, vocabulary) ]

analyzeText(t, sample) ==
    LET trimmed      == trim(t)
        sentences    == splitSentences(trimmed)
        words        == tokenizeWords(trimmed)
        styleProfile == computeStyleProfile(sample)
        sentenceLengths    == nonZero(wordCounts(sentences))
        sentenceLengthMean == average(sentenceLengths)
        sentenceLengthStd  == stdDev(sentenceLengths)
        hedgeDensity       == hedgeDensityOf(trimmed, sentences)
        scores             == rawScores(sentences, words, hedgeDensity, styleProfile)
    IN  IF tooLittle(trimmed, words, sentences)
        THEN neutralResult(words, sentences, styleProfile)
        ELSE [ metrics      |-> [m \in METRICS |-> round(scores[m])],
               riskBands    |-> [m \in METRICS |-> getRiskColor(scores[m])],
               insights     |-> [ wordCount |-> Len(words),
                                  sentenceCount |-> Len(sentences),
                                  note |-> FALSE,
                                  avgSentenceLength |-> toFixed(sentenceLengthMean, 1),
                                  sentenceLengthStd |-> toFixed(sentenceLengthStd, 1),
                                  dominantOpenerRatio |-> toFixed(dominantOpenerRatioOf(sentences), 2),
                                  hedgeDensity |-> toFixed(hedgeDensity, 2) ],
               suggestions  |-> buildSuggestions(trimmed, sentences, sentenceLengthMean,
                                                 sentenceLengthStd, hedgeDensity, styleProfile),
               styleProfile |-> styleProfile ]

-----------------------------------------------------------------------------
(* The endpoint POST /api/analyze.                                          *)

TEXT_LIMIT == 120000

postAnalyze(t, sample) ==
    IF t = empty \/ trim(t) = empty
    THEN [ ok |-> FALSE, error |-> "Text is required for analysis." ]
    ELSE IF Len(t) > TEXT_LIMIT
    THEN [ ok |-> FALSE,
           error |-> "Text is too large. Please keep it under ~20k words." ]
    ELSE [ ok |-> TRUE, data |-> analyzeText(t, sample) ]

-----------------------------------------------------------------------------
(* The client: App.jsx.                                                     *)

SAMPLE_TEXT ==
    chars("The results show that the project met its objectives in multiple ways. The report explains the timeline and outcomes in detail. The team completed every task on schedule and stayed aligned with requirements. It is important to note that each milestone followed the same structure for consistency. Furthermore, the analysis provides a clear summary of what happened and why it mattered.")

WORD_LIMIT == 10000

STALE_MESSAGE ==
    "This suggestion no longer lines up with the current text. Run Analyze again."

\* text.trim().match(/\S+/g): the number of matches
countWords(t) == Len(terms(trim(t)))

\* a fetch whose response is always handled as that of a full analysis
fetchResetting(inputText, shouldResetSuggestions) ==
    [ text |-> inputText, styleSample |-> styleSample,
      reset |-> TRUE,
      response |-> postAnalyze(inputText, styleSample) ]

\* a fetch of /api/analyze awaiting its response: the body it sent, what
\* analyzeText(inputText, shouldResetSuggestions) does with the response, and
\* the response itself (the server keeps no state: what it answers is fixed
\* by the body)
fetch(inputText, shouldResetSuggestions) ==
    [ text |-> inputText, styleSample |-> styleSample,
      reset |-> shouldResetSuggestions,
      response |-> postAnalyze(inputText, styleSample) ]

\* arr.filter((_, k) => k !== i), i 1-based
without(arr, i) == SubSeq(arr, 1, i - 1) \o SubSeq(arr, i + 1, Len(arr))

\* suggestions.find((item) => item.id === id), null if none
findById(list, id) == find(list, LAMBDA item : item.id = id)

\* next.find((item) => item.status === 'pending')?.id || null
firstPendingId(list) ==
    LET hit == find(list, LAMBDA item : item.status = "pending")
    IN  IF hit = null THEN noId ELSE hit.id

\* the search without its last step: the trimmed original is not looked for
locateUntrimmed(t, suggestion) ==
    LET originalSlice == slice(t, suggestion.start, suggestion.end)
        exact         == indexOf(t, suggestion.original)
    IN  IF originalSlice = suggestion.original
        THEN [ how |-> "span", start |-> suggestion.start, end |-> suggestion.end,
               originalSlice |-> originalSlice ]
        ELSE IF exact >= 0
        THEN [ how |-> "exact", start |-> exact,
               end |-> exact + Len(suggestion.original),
               originalSlice |-> suggestion.original ]
        ELSE [ how |-> "stale", start |-> suggestion.start, end |-> suggestion.end,
               originalSlice |-> originalSlice ]

\* the search that settles for the recorded span when it finds nothing
locateAnyway(t, suggestion) ==
    LET originalSlice == slice(t, suggestion.start, suggestion.end)
        exact         == indexOf(t, suggestion.original)
        compact       == trim(suggestion.original)
        fallback      == IF compact # empty THEN indexOf(t, compact) ELSE -1
    IN  IF originalSlice = suggestion.original \/ (exact < 0 /\ fallback < 0)
        THEN [ how |-> "span", start |-> suggestion.start, end |-> suggestion.end,
               originalSlice |-> originalSlice ]
        ELSE IF exact >= 0
        THEN [ how |-> "exact", start |-> exact,
               end |-> exact + Len(suggestion.original),
               originalSlice |-> suggestion.original ]
        ELSE [ how |-> "compact", start |-> fallback,
               end |-> fallback + Len(compact), originalSlice |-> compact ]

\* where applySuggestion finds the text to replace: at the recorded span, else
\* at the first occurrence of the original, else at the first occurrence of the
\* trimmed original, else nowhere
locate(t, suggestion) ==
    LET originalSlice == slice(t, suggestion.start, suggestion.end)
        exact         == indexOf(t, suggestion.original)
        compact       == trim(suggestion.original)
        fallback      == IF compact # empty THEN indexOf(t, compact) ELSE -1
    IN  IF originalSlice = suggestion.original
        THEN [ how |-> "span", start |-> suggestion.start, end |-> suggestion.end,
               originalSlice |-> originalSlice ]
        ELSE IF exact >= 0
        THEN [ how |-> "exact", start |-> exact,
               end |-> exact + Len(suggestion.original),
               originalSlice |-> suggestion.original ]
        ELSE IF fallback < 0
        THEN [ how |-> "stale", start |-> suggestion.start, end |-> suggestion.end,
               originalSlice |-> originalSlice ]
        ELSE [ how |-> "compact", start |-> fallback,
               end |-> fallback + Len(compact), originalSlice |-> compact ]

\* `${text.slice(0, start)}${suggestion.replacement}${text.slice(end)}`
nextTextOf(t, suggestion, loc) ==
    slice(t, 0, loc.start) \o suggestion.replacement \o sliceFrom(t, loc.end)

\* one element of nextSuggestions, shifted only when it starts after the end
reconcileAfter(item, id, loc, replacement, delta) ==
    IF item.id = id
    THEN [item EXCEPT !.status = "accepted", !.start = loc.start,
                      !.end = loc.start + Len(replacement)]
    ELSE IF item.start > loc.end
    THEN [item EXCEPT !.start = item.start + delta, !.end = item.end + delta]
    ELSE item

\* one element of nextSuggestions, with no suggestion shifted
reconcileUnshifted(item, id, loc, replacement, delta) ==
    IF item.id = id
    THEN [item EXCEPT !.status = "accepted", !.start = loc.start,
                      !.end = loc.start + Len(replacement)]
    ELSE item

\* one element of nextSuggestions
reconcile(item, id, loc, replacement, delta) ==
    IF item.id = id
    THEN [item EXCEPT !.status = "accepted", !.start = loc.start,
                      !.end = loc.start + Len(replacement)]
    ELSE IF item.start >= loc.end
    THEN [item EXCEPT !.start = item.start + delta, !.end = item.end + delta]
    ELSE item

\* nextSuggestions with every other suggestion put back to pending
nextSuggestionsReopened(list, id, loc, replacement, delta) ==
    [k \in 1..Len(list) |->
        IF list[k].id = id
        THEN reconcile(list[k], id, loc, replacement, delta)
        ELSE [reconcile(list[k], id, loc, replacement, delta)
                 EXCEPT !.status = "pending"]]

nextSuggestionsOf(list, id, loc, replacement, delta) ==
    [k \in 1..Len(list) |-> reconcile(list[k], id, loc, replacement, delta)]

\* the ids of the other pending suggestions whose span overlaps the span an
\* accept replaces: their start is before its end, so the accept leaves their
\* start and end as they were
cut(list, id, loc) ==
    { list[k].id : k \in { j \in 1..Len(list) :
                              /\ list[j].id # id
                              /\ list[j].status = "pending"
                              /\ list[j].start < loc.end
                              /\ list[j].end > loc.start } }

-----------------------------------------------------------------------------
(* Bounds of the client model and the inputs a user can type.               *)

\* inputs that send nothing (typing, selecting and rejecting) in one behaviour
MaxEdits == 1
\* scoring requests issued in one behaviour
MaxRequests == 3

\* the offsets an edit of the document touches: its first character and the
\* first white space that follows the end mark of a sentence
editPoints(t) ==
    LET breaks == SelectSeq(indices(Len(t) - 1),
                            LAMBDA k : t[k + 1] \in SpaceChars /\ t[k] \in EndMarks)
    IN  IF t = empty THEN {}
        ELSE IF Len(breaks) = 0 THEN {0}
        ELSE {0, breaks[1]}

\* what the document can be after one edit: one character deleted, or all of it
typed(t) ==
    { slice(t, 0, k) \o sliceFrom(t, k + 1) : k \in editPoints(t) } \cup {empty}

STYLE_SAMPLES ==
    { empty,
      chars("Why? I think that we should, on the whole, take the time to look at what the data says before we jump to any big claims about it.") }

-----------------------------------------------------------------------------
(* The client's state after construction and its handlers.                  *)

ClientInit ==
    /\ text = SAMPLE_TEXT
    /\ styleSample = empty
    /\ analysis = null
    /\ currentMetrics = null
    /\ suggestions = << >>
    /\ originalText = empty
    /\ activeSuggestionId = noId
    /\ loading = FALSE
    /\ refreshingRisk = FALSE
    /\ error = ""
    /\ inflight = << >>
    /\ edits = 0
    /\ requests = 0
    /\ located = "none"
    /\ overlapped = {}
    /\ delivered = 0

\* the document text area's onChange
setText ==
    /\ edits < MaxEdits
    /\ \E value \in typed(text) :
          /\ value # text
          /\ text' = value
    /\ edits' = edits + 1
    /\ UNCHANGED << styleSample, analysis, currentMetrics, suggestions,
                    originalText, activeSuggestionId, loading, refreshingRisk,
                    error, inflight, requests, located,
                    overlapped, delivered, reqText, reqStyle, result >>

\* the style sample text area's onChange
setStyleSample ==
    /\ edits < MaxEdits
    /\ \E value \in STYLE_SAMPLES :
          /\ value # styleSample
          /\ styleSample' = value
    /\ edits' = edits + 1
    /\ UNCHANGED << text, analysis, currentMetrics, suggestions, originalText,
                    activeSuggestionId, loading, refreshingRisk, error,
                    inflight, requests, located,
                    overlapped, delivered, reqText, reqStyle, result >>

\* a click on a highlighted segment of the preview (onSelectSuggestion)
setActiveSuggestionId(id) ==
    /\ edits < MaxEdits
    /\ findById(suggestions, id) # null
    /\ findById(suggestions, id).status = "pending"
    /\ id # activeSuggestionId
    /\ activeSuggestionId' = id
    /\ edits' = edits + 1
    /\ UNCHANGED << text, styleSample, analysis, currentMetrics, suggestions,
                    originalText, loading, refreshingRisk, error, inflight,
                    requests, located,
                    overlapped, delivered, reqText, reqStyle, result >>

\* the Analyze button (disabled while loading), up to the await of the fetch
handleAnalyze ==
    /\ ~loading
    /\ requests < MaxRequests
    /\ IF trim(text) = empty
       THEN /\ error' = "Paste your draft first."
            /\ UNCHANGED << loading, inflight, requests >>
       ELSE IF countWords(text) > WORD_LIMIT
       THEN /\ error' = "Please keep input under 10,000 words."
            /\ UNCHANGED << loading, inflight, requests >>
       ELSE /\ error' = ""
            /\ loading' = TRUE
            /\ inflight' = Append(inflight, fetch(text, TRUE))
            /\ requests' = requests + 1
    /\ UNCHANGED << text, styleSample, analysis, currentMetrics, suggestions,
                    originalText, activeSuggestionId, refreshingRisk, edits,
                    located,
                    overlapped, delivered, reqText, reqStyle, result >>

\* the Accept button of a suggestion, up to the await of the refresh's fetch
applySuggestion(id) ==
    /\ requests < MaxRequests
    /\ findById(suggestions, id) # null
    /\ findById(suggestions, id).status = "pending"
    /\ LET suggestion == findById(suggestions, id)
           loc        == locate(text, suggestion)
           nextText   == nextTextOf(text, suggestion, loc)
           delta      == Len(suggestion.replacement) - Len(loc.originalSlice)
       IN  /\ located' = loc.how
           /\ IF loc.how = "stale"
              THEN /\ error' = STALE_MESSAGE
                   /\ UNCHANGED << text, suggestions, refreshingRisk, inflight,
                                   requests, overlapped >>
              ELSE /\ text' = nextText
                   /\ suggestions' = nextSuggestionsOf(suggestions, id, loc,
                                                       suggestion.replacement, delta)
                   /\ refreshingRisk' = TRUE
                   /\ inflight' = Append(inflight, fetch(nextText, FALSE))
                   /\ requests' = requests + 1
                   /\ overlapped' = overlapped \cup cut(suggestions, id, loc)
                   /\ UNCHANGED error
    /\ UNCHANGED << styleSample, analysis, currentMetrics, originalText,
                    activeSuggestionId, loading, edits, delivered,
                    reqText, reqStyle, result >>

\* a Reject button that is never disabled
rejectNeverDisabled(suggestion) == FALSE

\* disabled={suggestion.status !== 'pending'} of the Reject button
rejectDisabled(suggestion) == suggestion.status # "pending"

\* the Reject button of a suggestion (disabled unless the suggestion is pending)
rejectSuggestion(id) ==
    /\ edits < MaxEdits
    /\ findById(suggestions, id) # null
    /\ ~rejectDisabled(findById(suggestions, id))
    /\ LET next == [k \in 1..Len(suggestions) |->
                       IF suggestions[k].id = id
                       THEN [suggestions[k] EXCEPT !.status = "rejected"]
                       ELSE suggestions[k]]
       IN  /\ suggestions' = next
           /\ activeSuggestionId' = IF activeSuggestionId = id
                                    THEN firstPendingId(next)
                                    ELSE activeSuggestionId
    /\ edits' = edits + 1
    /\ UNCHANGED << text, styleSample, analysis, currentMetrics, originalText,
                    loading, refreshingRisk, error, inflight, requests,
                    located,
                    overlapped, delivered, reqText, reqStyle, result >>

\* the response to the fetch inflight[i] arrives: the rest of analyzeText and of
\* the handler that awaits it (handleAnalyze if it resets, else refreshRisk)
receiveResponse(i) ==
    LET request  == inflight[i]
        response == request.response
    IN  /\ inflight' = without(inflight, i)
        /\ IF request.reset
           THEN /\ loading' = FALSE
                /\ IF response.ok
                   THEN /\ suggestions' = response.data.suggestions
                        /\ activeSuggestionId' =
                               IF Len(response.data.suggestions) > 0
                               THEN response.data.suggestions[1].id
                               ELSE noId
                        /\ analysis' = response.data
                        /\ currentMetrics' = response.data.metrics
                        /\ originalText' = request.text
                        /\ overlapped' = {}
                        /\ UNCHANGED error
                   ELSE /\ error' = response.error
                        /\ UNCHANGED << suggestions, activeSuggestionId, analysis,
                                        currentMetrics, originalText, overlapped >>
                /\ UNCHANGED refreshingRisk
           ELSE /\ refreshingRisk' = FALSE
                /\ currentMetrics' = IF response.ok THEN response.data.metrics
                                     ELSE currentMetrics
                /\ UNCHANGED << suggestions, activeSuggestionId, analysis,
                                originalText, loading, error, overlapped >>
        /\ delivered' = delivered + 1
        /\ UNCHANGED << text, styleSample, edits, requests, located,
                        reqText, reqStyle, result >>

\* the fetch inflight[i] is rejected (the server cannot be reached)
fetchFails(i) ==
    LET request == inflight[i]
    IN  /\ inflight' = without(inflight, i)
        /\ IF request.reset
           THEN /\ error' = "Failed to fetch"
                /\ loading' = FALSE
                /\ UNCHANGED refreshingRisk
           ELSE /\ refreshingRisk' = FALSE
                /\ UNCHANGED << error, loading >>
        /\ UNCHANGED << text, styleSample, analysis, currentMetrics, suggestions,
                        originalText, activeSuggestionId, edits, requests,
                        located, overlapped, delivered, reqText, reqStyle, result >>

ids(list) == { list[k].id : k \in 1..Len(list) }

Init ==
    /\ ClientInit
    /\ reqText = empty
    /\ reqStyle = empty
    /\ result = null

Next ==
    \/ setText
    \/ setStyleSample
    \/ handleAnalyze
    \/ \E id \in ids(suggestions) : setActiveSuggestionId(id)
    \/ \E id \in ids(suggestions) : applySuggestion(id)
    \/ \E id \in ids(suggestions) : rejectSuggestion(id)
    \/ \E i \in 1..Len(inflight) : receiveResponse(i)
    \/ \E i \in 1..Len(inflight) : fetchFails(i)

Spec == Init /\ [][Next]_vars

-----------------------------------------------------------------------------
(* The server on its own: one request, drawn from the documents below, is   *)
(* handled.                                                                 *)

\* sentences a document of the server's inputs is made of
MaxSentences == 3

\* what the documents are made of: a long sentence with a comma, a run of one
\* predictable phrase, a hedged sentence, a catalogued opening, a one-word
\* sentence, a plain sentence, and an empty line
FRAGMENTS ==
    << chars("a b c d e f g h i j, k l m n o p q r s t u. "),
       chars("Overall overall overall overall overall overall overall. "),
       chars("It may be that this could perhaps work. "),
       chars("It is important to note that results vary. "),
       chars("Yes. "),
       chars("The team met every goal on time, and then it rested. "),
       << "\n" >> >>

\* longer documents: hedged sentences, two of them with a double space; a
\* sentence of 21 words with a comma between two of 20 words, then two short
\* ones; a sentence of 21 words without a comma, one with a comma, then three
\* short ones
LONG_DOCUMENTS ==
    { chars("It may  be that this could perhaps work. It may  be that this could perhaps work. It may be that this could perhaps work."),
      chars("a b c d e f g h i j k l m n o p q r s t. a b c d e f g h i j, k l m n o p q r s t u. a b c d e f g h i j k l m n o p q r s t. x y z. x y z."),
      chars("a b c d e f g h i j k l m n o p q r s t u. a b c d e f g h i j, k l m n o p q r s t u. x y z. x y z. x y z.") }

\* every run of 1..MaxSentences fragments, and the longer documents
Documents ==
    { flatten([k \in DOMAIN pick |-> FRAGMENTS[pick[k]]]) :
        pick \in UNION { [1..n -> 1..Len(FRAGMENTS)] : n \in 1..MaxSentences } }
      \cup LONG_DOCUMENTS

ServerInit ==
    /\ ClientInit
    /\ reqText \in Documents
    /\ reqStyle \in STYLE_SAMPLES
    /\ result = null

\* app.post('/api/analyze', ...)
respond ==
    /\ result = null
    /\ result' = postAnalyze(reqText, reqStyle)
    /\ UNCHANGED << reqText, reqStyle >>
    /\ UNCHANGED clientVars

ServerNext == respond

ServerSpec == ServerInit /\ [][ServerNext]_vars


-----------------------------------------------------------------------------
(* The swap detector on its own: the second block of buildSuggestions runs  *)
(* over one text, starting from an empty list.                              *)

NOTED_TEXT == chars("It is important to note that this works.")

DETECTOR_TEXTS == Documents \cup { NOTED_TEXT }

DetectorInit ==
    /\ ClientInit
    /\ reqText \in DETECTOR_TEXTS
    /\ reqStyle = empty
    /\ result = null

\* PREDICTABLE_PHRASES.forEach(...) over reqText
detect ==
    /\ result = null
    /\ result' = [ suggestions |-> swapPhrases(<< >>, reqText) ]
    /\ UNCHANGED << reqText, reqStyle >>
    /\ UNCHANGED clientVars

DetectorNext == detect

DetectorSpec == DetectorInit /\ [][DetectorNext]_vars
-----------------------------------------------------------------------------
(* Properties of the server's response (checked under ServerSpec).          *)

\* the handler has answered with an analysis
answered == result # null /\ result.ok

\* the analysis was scored (it is not the neutral result)
scored == answered /\ ~result.data.insights.note

\* the words and the sentences the server sees in the request
wordsOfRequest     == tokenizeWords(trim(reqText))
sentencesOfRequest == splitSentences(trim(reqText))

\* C7: each of the five metrics of an analysis is an integer in 0..100.
MetricsInRange ==
    answered =>
        /\ DOMAIN result.data.metrics = METRICS
        /\ \A m \in METRICS : result.data.metrics[m] \in 0..100

\* a scored analysis with a metric at the upper end of the range and another
\* one inside it
MetricsInRangeWitness ==
    /\ scored
    /\ \E m \in METRICS : result.data.metrics[m] = 100
    /\ \E m \in METRICS : result.data.metrics[m] \in 1..99

\* the band the thresholds give to a returned metric
bandOfMetric(metric) ==
    IF metric < 35 THEN "low" ELSE IF metric < 65 THEN "moderate" ELSE "high"

\* C8 as stated: the band of each metric is the one the thresholds give to the
\* returned (rounded) metric.
BandMatchesReturnedMetric ==
    answered =>
        \A m \in METRICS :
            result.data.riskBands[m] = bandOfMetric(result.data.metrics[m])

\* C8, amended: the band of each metric is the one the thresholds give to the
\* returned metric, except that a metric of 35 may carry the band low and a
\* metric of 65 the band moderate (the band is taken from the score before it
\* is rounded, and a score in [34.5, 35) or [64.5, 65) rounds up to the
\* threshold).
BandMatchesScoreBeforeRounding ==
    answered =>
        \A m \in METRICS :
            LET metric == result.data.metrics[m]
                band   == result.data.riskBands[m]
            IN  \/ band = bandOfMetric(metric)
                \/ metric = 35 /\ band = "low"
                \/ metric = 65 /\ band = "moderate"

\* a scored analysis that returns 65 with the band moderate, next to metrics
\* whose band is the one of the returned value
BandWitness ==
    /\ scored
    /\ \E m \in METRICS : /\ result.data.metrics[m] = 65
                          /\ result.data.riskBands[m] = "moderate"
    /\ \E m \in METRICS : result.data.riskBands[m] = "low"
    /\ \E m \in METRICS : result.data.riskBands[m] = "high"

\* C9: a request with fewer than 20 words or fewer than 2 sentences is answered
\* with five metrics of 50, five bands moderate and no suggestion, whatever the
\* style sample.
NeutralWhenTooShort ==
    (answered /\ (Len(wordsOfRequest) < 20 \/ Len(sentencesOfRequest) < 2)) =>
        /\ \A m \in METRICS : result.data.metrics[m] = 50
        /\ \A m \in METRICS : result.data.riskBands[m] = "moderate"
        /\ result.data.suggestions = << >>

\* a neutral answer to a request of 20 words or more in one sentence, sent with
\* a style sample
NeutralWitness ==
    /\ answered
    /\ Len(wordsOfRequest) >= 20
    /\ Len(sentencesOfRequest) = 1
    /\ reqStyle # empty
    /\ result.data.suggestions = << >>
    /\ \A m \in METRICS : result.data.metrics[m] = 50

\* every suggestion the detectors push for the request
candidatesOfRequest ==
    LET trimmed   == trim(reqText)
        sentences == sentencesOfRequest
        lengths   == nonZero(wordCounts(sentences))
    IN  candidates(trimmed, sentences, average(lengths), stdDev(lengths),
                   hedgeDensityOf(trimmed, sentences),
                   computeStyleProfile(reqStyle))

\* C10: an analysis never carries more than 20 suggestions.
AtMostTwentySuggestions ==
    answered => Len(result.data.suggestions) <= 20

\* a scored analysis for which the detectors pushed more than 20 suggestions
AtMostTwentyWitness ==
    /\ scored
    /\ Len(candidatesOfRequest) > 20
    /\ Len(result.data.suggestions) = 20
-----------------------------------------------------------------------------
(* Properties of the client's handlers (checked under Spec).                *)

\* the first offset at which pat occurs in t, -1 if it occurs nowhere
firstOccurrence(t, pat) ==
    LET hits == { i \in 0..(Len(t) - Len(pat)) : occursAt(t, pat, i) }
    IN  IF hits = {} THEN -1
        ELSE CHOOSE i \in hits : \A j \in hits : i <= j

\* where the target s is to be found in the document t: at its recorded span if
\* the document reads s.original there, else at the first occurrence of
\* s.original, else at the first occurrence of s.original trimmed, else nowhere
place(t, s) ==
    LET trimmed == trim(s.original)
    IN  IF slice(t, s.start, s.end) = s.original
        THEN [ found |-> TRUE, start |-> s.start, end |-> s.end ]
        ELSE IF firstOccurrence(t, s.original) >= 0
        THEN [ found |-> TRUE, start |-> firstOccurrence(t, s.original),
               end |-> firstOccurrence(t, s.original) + Len(s.original) ]
        ELSE IF trimmed # empty /\ firstOccurrence(t, trimmed) >= 0
        THEN [ found |-> TRUE, start |-> firstOccurrence(t, trimmed),
               end |-> firstOccurrence(t, trimmed) + Len(trimmed) ]
        ELSE [ found |-> FALSE, start |-> -1, end |-> -1 ]

\* the indices of the suggestions with the given status
withStatus(status) ==
    { k \in 1..Len(suggestions) : suggestions[k].status = status }

\* C1: when applySuggestion succeeds with a replacement N characters longer
\* than the located span, every other suggestion that starts at or after the
\* end of the located span has its start and its end increased by N, and every
\* other suggestion that starts before that end keeps its start and its end
\* (the accepted suggestion itself takes the span C2 states).
ShiftsByDelta ==
    [][ \A id \in ids(suggestions) :
          (applySuggestion(id) /\ place(text, findById(suggestions, id)).found) =>
              LET s == findById(suggestions, id)
                  p == place(text, s)
                  N == Len(s.replacement) - (p.end - p.start)
              IN  /\ Len(suggestions') = Len(suggestions)
                  /\ \A k \in 1..Len(suggestions) :
                        suggestions[k].id # id =>
                            IF suggestions[k].start >= p.end
                            THEN /\ suggestions'[k].start = suggestions[k].start + N
                                 /\ suggestions'[k].end = suggestions[k].end + N
                            ELSE /\ suggestions'[k].start = suggestions[k].start
                                 /\ suggestions'[k].end = suggestions[k].end
      ]_vars

\* after one accept that changed the length of the document: a suggestion that
\* starts where the accepted one ended has moved, and one before it has not
ShiftsByDeltaWitness ==
    /\ analysis # null
    /\ Len(suggestions) = Len(analysis.suggestions)
    /\ located = "span"
    /\ Cardinality(withStatus("accepted")) = 1
    /\ \E a \in withStatus("accepted") :
          /\ suggestions[a].end # analysis.suggestions[a].end
          /\ \E j, k \in withStatus("pending") :
                /\ analysis.suggestions[j].start = analysis.suggestions[a].end
                /\ suggestions[j].start - analysis.suggestions[j].start =
                       suggestions[a].end - analysis.suggestions[a].end
                /\ suggestions[j].end - analysis.suggestions[j].end =
                       suggestions[a].end - analysis.suggestions[a].end
                /\ analysis.suggestions[k].start < analysis.suggestions[a].end
                /\ suggestions[k].start = analysis.suggestions[k].start
                /\ suggestions[k].end = analysis.suggestions[k].end

\* C2: applySuggestion looks for its target at the recorded span, then at the
\* first occurrence of original, then at the first occurrence of original
\* trimmed; when one of them finds it, the new document is the old one with
\* the located span replaced by replacement, and the target is accepted with
\* the span (locatedStart, locatedStart + length(replacement)).
LocatesInOrder ==
    [][ \A id \in ids(suggestions) :
          (applySuggestion(id) /\ place(text, findById(suggestions, id)).found) =>
              LET s == findById(suggestions, id)
                  p == place(text, s)
                  after == findById(suggestions', id)
              IN  /\ text' = slice(text, 0, p.start) \o s.replacement
                                 \o sliceFrom(text, p.end)
                  /\ after.status = "accepted"
                  /\ after.start = p.start
                  /\ after.end = p.start + Len(s.replacement)
      ]_vars

\* an accept that found its target only by the trimmed original, after one
\* that found it at its recorded span
LocatesInOrderWitness ==
    /\ located = "compact"
    /\ Cardinality(withStatus("accepted")) >= 1
    /\ \E a \in withStatus("accepted") :
          slice(text, suggestions[a].start, suggestions[a].end)
              = suggestions[a].replacement

\* C3: when the original of a pending suggestion is neither at its recorded
\* span nor anywhere in the document (as it is or trimmed), applySuggestion
\* sets the stale-suggestion error and leaves the document, the suggestion
\* list and the current metrics as they are, and sends no request.
StaleLeavesAll ==
    [][ \A id \in ids(suggestions) :
          (applySuggestion(id) /\ ~place(text, findById(suggestions, id)).found) =>
              /\ error' = STALE_MESSAGE
              /\ text' = text
              /\ suggestions' = suggestions
              /\ currentMetrics' = currentMetrics
              /\ inflight' = inflight
              /\ requests' = requests
      ]_vars

\* an accept has failed on a document that holds none of the originals
StaleLeavesAllWitness ==
    /\ located = "stale"
    /\ error = STALE_MESSAGE
    /\ withStatus("pending") # {}
    /\ \A k \in withStatus("pending") : ~place(text, suggestions[k]).found
    /\ currentMetrics # null

\* C4 as stated: a pending suggestion whose span an accept has cut, and which
\* was therefore not shifted, is invalid until the next full analysis: no
\* applySuggestion on it changes the document.
CutSuggestionIsInvalid ==
    [][ \A id \in overlapped : applySuggestion(id) => text' = text ]_vars

\* C5: as long as no full analysis replaces the list, a suggestion that is
\* accepted or rejected is never pending again.
StatusNeverReopens ==
    [][ (~ \E i \in 1..Len(inflight) : inflight[i].reset /\ receiveResponse(i)) =>
            /\ Len(suggestions') = Len(suggestions)
            /\ \A k \in 1..Len(suggestions) :
                  /\ suggestions'[k].id = suggestions[k].id
                  /\ suggestions[k].status # "pending" =>
                         suggestions'[k].status # "pending"
      ]_vars

\* a list with an accepted and a rejected suggestion next to a pending one,
\* after the refresh of the accept has been handled
StatusNeverReopensWitness ==
    /\ withStatus("accepted") # {}
    /\ withStatus("rejected") # {}
    /\ withStatus("pending") # {}
    /\ inflight = << >>

\* C6: a successful accept sends exactly one request, for the document as it
\* is after the edit, and the handling of its response changes the current
\* metrics only: the suggestion list, the baseline analysis and the captured
\* original text stay as they are (so do the document, the selection and the
\* message shown).
AcceptRefreshesMetricsOnly ==
    [][ /\ \A id \in ids(suggestions) :
              (applySuggestion(id) /\ place(text, findById(suggestions, id)).found) =>
                  /\ Len(inflight') = Len(inflight) + 1
                  /\ SubSeq(inflight', 1, Len(inflight)) = inflight
                  /\ inflight'[Len(inflight')].text = text'
                  /\ ~inflight'[Len(inflight')].reset
        /\ \A i \in 1..Len(inflight) :
              (~inflight[i].reset /\ (receiveResponse(i) \/ fetchFails(i))) =>
                  /\ UNCHANGED << suggestions, analysis, originalText, text,
                                  activeSuggestionId, error, loading >>
                  /\ currentMetrics' \in
                         { currentMetrics } \cup
                         { inflight[i].response.data.metrics :
                               x \in { y \in {1} : inflight[i].response.ok } }
      ]_vars

\* the response to the request of an accept has been handled: the metrics
\* shown are no longer the baseline's, the list and the baseline are in place
AcceptRefreshesMetricsOnlyWitness ==
    /\ analysis # null
    /\ withStatus("accepted") # {}
    /\ inflight = << >>
    /\ ~refreshingRisk
    /\ currentMetrics # analysis.metrics
    /\ originalText # text
    /\ Len(suggestions) = Len(analysis.suggestions)
-----------------------------------------------------------------------------
(* Properties of segmentation and of the spans of suggestions (ServerSpec). *)

\* C11 as stated: the span of every suggestion of an analysis is a span of
\* the text of the request, and the request text reads the suggestion's
\* original there.
SpansIntoRequestText ==
    answered =>
        \A k \in 1..Len(result.data.suggestions) :
            LET s == result.data.suggestions[k]
            IN  /\ 0 <= s.start
                /\ s.start < s.end
                /\ s.end <= Len(reqText)
                /\ slice(reqText, s.start, s.end) = s.original

\* the texts splitSentences is given while a request is handled, and the
\* request text as it came
segmentedTexts == { trim(reqText), reqStyle, reqText }

\* C12: every sentence of splitSentences(text) has 0 <= start < end <=
\* length(text), and its raw text is text.slice(start, end).
SentenceSpans ==
    result # null =>
        \A t \in segmentedTexts :
            \A k \in 1..Len(splitSentences(t)) :
                LET sentence == splitSentences(t)[k]
                IN  /\ 0 <= sentence.start
                    /\ sentence.start < sentence.end
                    /\ sentence.end <= Len(t)
                    /\ sentence.raw = slice(t, sentence.start, sentence.end)

\* a request of several sentences, one of which starts after the first
\* character with white space that its trimmed text does not have
SentenceSpansWitness ==
    /\ answered
    /\ Len(sentencesOfRequest) >= 2
    /\ \E k \in 1..Len(sentencesOfRequest) :
          /\ sentencesOfRequest[k].start > 0
          /\ sentencesOfRequest[k].raw # sentencesOfRequest[k].text
          /\ sentencesOfRequest[k].end < Len(trim(reqText))
-----------------------------------------------------------------------------
(* Properties of the detectors (ServerSpec).                                *)

\* the suggestions of the response that carry the given title
titled(title) ==
    SelectSeq(result.data.suggestions, LAMBDA s : s.title = title)

\* the suggestions of the response of the given type
ofType(type) ==
    SelectSeq(result.data.suggestions, LAMBDA s : s.type = type)

\* the sentences of the request a suggestion spans
spannedBy(s) ==
    SelectSeq(sentencesOfRequest, LAMBDA x : x.start = s.start /\ x.end = s.end)

\* the text t without its first hedge-word match, white space tidied as the
\* detector does
withoutFirstHedge(t) ==
    LET ms == hedgeMatches(t)
    IN  IF Len(ms) = 0 THEN t
        ELSE trim(collapseSpaces(slice(t, 0, ms[1][1])
                                   \o sliceFrom(t, ms[1][1] + Len(ms[1][2]))))

\* C13 as stated: no hedge-reduction suggestion when there are fewer hedge
\* matches than half the number of sentences; otherwise every replacement the
\* detector proposes is its sentence with the first hedge-word match removed
\* and every other one kept.
HedgeRemovesFirstMatch ==
    scored =>
        LET matches == Len(hedgeMatches(trim(reqText)))
            count   == Max2(1, Len(sentencesOfRequest))
            hedging == ofType("reduce-hedging-uniformity")
        IN  /\ 2 * matches < count => hedging = << >>
            /\ 2 * matches >= count =>
                   \A k \in 1..Len(hedging) :
                       /\ Len(spannedBy(hedging[k])) = 1
                       /\ Len(hedgeMatches(spannedBy(hedging[k])[1].text)) > 0
                       /\ hedging[k].replacement =
                              withoutFirstHedge(spannedBy(hedging[k])[1].text)

\* the word counts a, b, c have a population standard deviation of at most
\* 2.2: 9 * variance = 3 * (a^2 + b^2 + c^2) - (a + b + c)^2 <= 9 * 4.84
closeLengths(a, b, c) ==
    100 * (3 * (a * a + b * b + c * c) - (a + b + c) * (a + b + c)) <= 4356

\* the sentences of the request that stand in the middle of three
middles == { k \in 2..(Len(sentencesOfRequest) - 1) : TRUE }

\* C14: a 'Vary sentence length in this run' suggestion spans the middle one of
\* three consecutive sentences whose word counts have a population standard
\* deviation of at most 2.2, and that middle sentence has more than 20 words
\* and a comma; the middle of three sentences of 9 to 11 words gets none.
WindowSplitsLongMiddle ==
    answered =>
        LET x      == sentencesOfRequest
            splits == titled("Vary sentence length in this run")
        IN  /\ \A n \in 1..Len(splits) :
                   \E k \in middles :
                       /\ x[k].start = splits[n].start /\ x[k].end = splits[n].end
                       /\ closeLengths(x[k - 1].wordCount, x[k].wordCount, x[k + 1].wordCount)
                       /\ x[k].wordCount > 20
                       /\ includes(x[k].text, << "," >>)
            /\ \A k \in middles :
                   (\A j \in (k - 1)..(k + 1) : x[j].wordCount \in 9..11) =>
                       \A n \in 1..Len(splits) : splits[n].start # x[k].start

\* a window has fired in the response
WindowSplitsWitness ==
    /\ answered
    /\ \E n \in 1..Len(result.data.suggestions) :
          /\ result.data.suggestions[n].title = "Vary sentence length in this run"
          /\ result.data.suggestions[n].start > 0

-----------------------------------------------------------------------------
(* Properties of the swap detector on its own (DetectorSpec).               *)

\* the detector has run over the text 'It is important to note that this works.'
notedDetected == result # null /\ reqText = NOTED_TEXT

\* the detector's only suggestion for that text replaces the first 28
\* characters, 'It is important to note that', by the given replacement
notedSwap(replacement) ==
    /\ Len(result.suggestions) = 1
    /\ result.suggestions[1].type = "swap-predictable-phrasing"
    /\ result.suggestions[1].start = 0
    /\ result.suggestions[1].end = 28
    /\ result.suggestions[1].original = chars("It is important to note that")
    /\ result.suggestions[1].replacement = replacement

\* C15 as stated: the swap detector on 'It is important to note that this
\* works.' proposes, at offset 0, 'Note that' for 'It is important to note that'.
NotedBecomesNoteThat ==
    notedDetected => notedSwap(chars("Note that"))

\* C15, amended: the swap detector on 'It is important to note that this
\* works.' proposes, at offset 0, 'Worth noting:' for 'It is important to note
\* that': the catalog's replacement for the phrase, its first letter
\* capitalized as the match's is.
NotedBecomesWorthNoting ==
    notedDetected => notedSwap(chars("Worth noting:"))

NotedWitness ==
    /\ notedDetected
    /\ Len(result.suggestions) = 1
    /\ result.suggestions[1].start = 0

-----------------------------------------------------------------------------
(* Properties of the suggestion list (ServerSpec).                          *)

\* C17 as stated: no two suggestions of the response have the same type,
\* start, end and replacement.
NoDuplicateSuggestions ==
    answered =>
        \A i, j \in 1..Len(result.data.suggestions) :
            LET a == result.data.suggestions[i]
                b == result.data.suggestions[j]
            IN  (/\ a.type = b.type /\ a.start = b.start /\ a.end = b.end
                 /\ a.replacement = b.replacement) => i = j

\* the sentences of the request that have more than mean + 7 words and a comma
longWithComma ==
    LET x    == sentencesOfRequest
        mean == average(nonZero(wordCounts(x)))
    IN  { k \in 1..Len(x) : /\ x[k].wordCount * Scale > mean + 7 * Scale
                            /\ includes(x[k].text, << "," >>) }

\* the style sample gives a baseline, and the sentence lengths of the request
\* deviate by less than 0.75 times the baseline's deviation
moreUniformThanBaseline ==
    LET profile == computeStyleProfile(reqStyle)
        std     == stdDev(nonZero(wordCounts(sentencesOfRequest)))
    IN  /\ profile # null
        /\ 100 * std < 75 * profile.sentenceVariance

\* C18 as stated: when a style baseline exists, the request's sentence lengths
\* deviate by less than 0.75 times the baseline's, and some sentence has more
\* than mean + 7 words and a comma, the detectors push a 'Match your usual
\* rhythm' split for one such sentence.
RhythmSplitWhenUniform ==
    (scored /\ moreUniformThanBaseline /\ longWithComma # {}) =>
        \E n \in 1..Len(candidatesOfRequest) :
            /\ candidatesOfRequest[n].title = "Match your usual rhythm"
            /\ \E k \in longWithComma :
                  /\ candidatesOfRequest[n].start = sentencesOfRequest[k].start
                  /\ candidatesOfRequest[n].end = sentencesOfRequest[k].end
-----------------------------------------------------------------------------
(* Properties of the scores (ServerSpec).                                   *)

\* 100 times the clamped weighted sum of the four sub-scores of the response
weightedOfReturned ==
    LET m == result.data.metrics
    IN  Max2(0, Min2(100 * 100,
                     28 * m.perplexity + 24 * m.burstiness
                       + 22 * m.sentencePatternDiversity
                       + 26 * m.vocabularyPredictability))

\* C16: for a scored analysis, the returned overallRisk is within 1 of
\* clamp(0.28 * perplexity + 0.24 * burstiness + 0.22 * sentencePatternDiversity
\* + 0.26 * vocabularyPredictability) computed from the returned sub-scores.
OverallIsWeightedSum ==
    scored =>
        /\ 100 * result.data.metrics.overallRisk - weightedOfReturned <= 100
        /\ weightedOfReturned - 100 * result.data.metrics.overallRisk <= 100

\* a scored analysis whose sub-scores lie far apart and whose weighted sum is
\* not a whole number
OverallWitness ==
    /\ scored
    /\ weightedOfReturned # 100 * result.data.metrics.overallRisk
    /\ \E a, b \in METRICS \ {"overallRisk"} :
          result.data.metrics[a] - result.data.metrics[b] >= 40

\* the parts of an analysis the style sample has no say in
styleFree(a) ==
    << a.insights.wordCount, a.insights.sentenceCount, a.metrics.perplexity,
       a.metrics.sentencePatternDiversity, a.metrics.vocabularyPredictability >>

\* C19: whatever the style sample, the analysis of a text has the same
\* insights.wordCount and insights.sentenceCount and the same perplexity,
\* sentencePatternDiversity and vocabularyPredictability metrics.
StyleLeavesSegmentation ==
    answered =>
        \A other \in STYLE_SAMPLES :
            styleFree(analyzeText(reqText, other)) = styleFree(result.data)

\* a scored analysis with a style sample that moved the burstiness score
StyleWitness ==
    /\ scored
    /\ reqStyle # empty
    /\ result.data.styleProfile # null
    /\ result.data.metrics.burstiness # analyzeText(reqText, empty).metrics.burstiness
    /\ result.data.suggestions # analyzeText(reqText, empty).suggestions
-----------------------------------------------------------------------------
(* Accepts in a row and the order of the refresh responses (Spec).          *)

\* one analysis, then nothing but accepts, each of which sent its refresh,
\* and every response has been delivered
acceptsInARowDelivered ==
    /\ edits = 0
    /\ requests >= 2
    /\ Cardinality(withStatus("accepted")) = requests - 1
    /\ inflight = << >>
    /\ delivered = requests

\* C20 as stated: after accepts made one after another with no edit and no
\* new analysis in between, once every scoring response has been delivered the
\* metrics shown are those of the current document.
MetricsOfCurrentDocument ==
    acceptsInARowDelivered =>
        currentMetrics = analyzeText(text, styleSample).metrics
-----------------------------------------------------------------------------
(* Spans after an accept (Spec).                                            *)

\* the document t reads the original of the suggestion s at the span of s
validIn(t, s) == slice(t, s.start, s.end) = s.original

\* C21: after a successful applySuggestion, every other pending suggestion
\* that was valid before the accept (the document read its original at its
\* span) and whose span does not overlap the located span is valid against the
\* new document with its updated start and end.
SpansStayValid ==
    [][ \A id \in ids(suggestions) :
          (applySuggestion(id) /\ place(text, findById(suggestions, id)).found) =>
              LET p == place(text, findById(suggestions, id))
              IN  \A k \in 1..Len(suggestions) :
                      (/\ suggestions[k].id # id
                       /\ suggestions[k].status = "pending"
                       /\ validIn(text, suggestions[k])
                       /\ (suggestions[k].end <= p.start \/ suggestions[k].start >= p.end))
                      => /\ suggestions'[k].id = suggestions[k].id
                         /\ suggestions'[k].original = suggestions[k].original
                         /\ validIn(text', suggestions'[k])
      ]_vars

\* after one accept that changed the length of the document: a pending
\* suggestion that lay before the replaced span and one that lay after it,
\* the latter moved, are both valid against the new document
SpansStayValidWitness ==
    /\ analysis # null
    /\ Len(suggestions) = Len(analysis.suggestions)
    /\ Cardinality(withStatus("accepted")) = 1
    /\ \E a \in withStatus("accepted") :
          /\ suggestions[a].end # analysis.suggestions[a].end
          /\ \E j, k \in withStatus("pending") :
                /\ analysis.suggestions[j].start >= analysis.suggestions[a].end
                /\ suggestions[j].start # analysis.suggestions[j].start
                /\ validIn(text, suggestions[j])
                /\ analysis.suggestions[k].end <= analysis.suggestions[a].start
                /\ validIn(text, suggestions[k])

\* the types of the suggestions that rewrite one sentence
SENTENCE_TYPES ==
    { "vary-sentence-length", "add-stylistic-texture", "diversify-openers",
      "reduce-hedging-uniformity" }

\* the number of white-space characters t begins with
leadingSpaces(t) == skipSpaceRight(t, 1) - 1

\* C22 as stated: accepting a sentence-level suggestion at its recorded span
\* leaves the document as it was up to the sentence's first character that is
\* no white space: the white space between the sentence and the one before it
\* is still there after the accept.
SeparatorKept ==
    [][ \A id \in ids(suggestions) :
          (/\ applySuggestion(id)
           /\ findById(suggestions, id).type \in SENTENCE_TYPES
           /\ validIn(text, findById(suggestions, id))) =>
              LET s     == findById(suggestions, id)
                  first == s.start + leadingSpaces(s.original)
              IN  slice(text', 0, first) = slice(text, 0, first)
      ]_vars

\* C23: whatever applySuggestion and rejectSuggestion calls are made, a
\* suggestion's status changes only from pending to accepted or from pending
\* to rejected: an accepted suggestion never becomes rejected and a rejected
\* one never becomes accepted (a full analysis replaces the list by a new one).
TerminalStatusesFinal ==
    [][ (~ \E i \in 1..Len(inflight) : inflight[i].reset /\ receiveResponse(i)) =>
            /\ Len(suggestions') = Len(suggestions)
            /\ \A k \in 1..Len(suggestions) :
                  suggestions'[k].status # suggestions[k].status =>
                      /\ suggestions[k].status = "pending"
                      /\ suggestions'[k].status \in {"accepted", "rejected"}
      ]_vars

\* two suggestions accepted and one rejected out of one analysis
TerminalStatusesWitness ==
    /\ Cardinality(withStatus("accepted")) = 2
    /\ Cardinality(withStatus("rejected")) = 1
=============================================================================
